---- MODULE Spec2Model ----
(***************************************************************************)
(* serve.py: an HTTP server that serves, at the root path, the file        *)
(* index<N>.html with the highest N found in the working directory, and a  *)
(* background thread (check_for_updates) that re-selects that file and     *)
(* refreshes its modification time.                                        *)
(*                                                                         *)
(* File names are sequences of one-character strings, so that the regular  *)
(* expression of find_highest_version_file and int() are computed on the   *)
(* characters.  The directory is the sequence os.listdir returns plus the  *)
(* modification time of every entry; an external process creates, deletes  *)
(* and modifies files at any moment.                                       *)
(***************************************************************************)
EXTENDS Integers, Sequences, FiniteSets, TLC

\* ------------------------------------------------------------------ bounds
\* modification times are 1..MaxMtime
MaxMtime == 2
\* longest directory listing given to the selector in SpecSel
MaxLen == 3

\* ------------------------------------------------------- configuration
FILE_PREFIX == <<"i", "n", "d", "e", "x">>
FILE_SUFFIX == <<".", "h", "t", "m", "l">>

\* Python's None (target_filename, target_file before startup)
None == <<>>

\* ------------------------------------------------------------ file names
DigitChars == <<"0", "1", "2", "3", "4", "5", "6", "7", "8", "9">>
Digits == {DigitChars[i] : i \in 1..10}
DigitVal(c) == (CHOOSE i \in 1..10 : DigitChars[i] = c) - 1

Name(mid, post) == FILE_PREFIX \o mid \o FILE_SUFFIX \o post

index1 == Name(<<"1">>, <<>>)
index01 == Name(<<"0", "1">>, <<>>)
index2 == Name(<<"2">>, <<>>)
index3 == Name(<<"3">>, <<>>)
index9 == Name(<<"9">>, <<>>)
index10 == Name(<<"1", "0">>, <<>>)
index1_htmlx == Name(<<"1">>, <<"x">>)
indexA == Name(<<"A">>, <<>>)
index_nodigit == Name(<<>>, <<>>)
xindex3 == <<"x">> \o Name(<<"3">>, <<>>)
index3_nl == Name(<<"3">>, <<"\n">>)

\* the files the external process works with while the server runs
Names == {index1, index01, index2}
\* the directory entries the selector is tried on in SpecSel
SelNames == {index1, index01, index2, index3, index9, index10, index1_htmlx,
             indexA, index_nodigit, xindex3, index3_nl}

\* ------------------------------------------- find_highest_version_file
\* re.compile(rf"^{prefix}(\d+){suffix}$").match(fn): group(1), or NoMatch.
\* Without re.MULTILINE, $ matches at the end of the string and also just
\* before a newline that ends the string.
NoMatch == <<>>
DollarTails == {FILE_SUFFIX, FILE_SUFFIX \o <<"\n">>}
MatchGroup(fn) ==
    LET P == Len(FILE_PREFIX)
        Ks == {k \in 1..(Len(fn) - P) :
                 /\ SubSeq(fn, 1, P) = FILE_PREFIX
                 /\ \A i \in (P + 1)..(P + k) : fn[i] \in Digits
                 /\ SubSeq(fn, P + k + 1, Len(fn)) \in DollarTails}
    IN  IF Ks = {} THEN NoMatch
        ELSE SubSeq(fn, P + 1, P + (CHOOSE k \in Ks : \A j \in Ks : j <= k))

\* int(match.group(1))
RECURSIVE IntOf(_)
IntOf(ds) ==
    IF ds = <<>> THEN 0
    ELSE IntOf(SubSeq(ds, 1, Len(ds) - 1)) * 10 + DigitVal(ds[Len(ds)])

\* line 33: if num > max_num (BetterGE, BetterNotEqual, BetterAlways: faulty
\* variants, used to test that the properties depend on the comparison)
BetterGE(num, max_num) == num >= max_num
BetterNotEqual(num, max_num) == num # max_num
BetterAlways(num, max_num) == TRUE
Better(num, max_num) == num > max_num

\* the for loop of lines 27-38 from entry i on, with max_num and target_filename
RECURSIVE SelectLoop(_, _, _, _)
SelectLoop(L, i, max_num, target_filename) ==
    IF i > Len(L) THEN target_filename
    ELSE LET g == MatchGroup(L[i])
         IN  IF g # NoMatch /\ Better(IntOf(g), max_num)
             THEN SelectLoop(L, i + 1, IntOf(g), L[i])
             ELSE SelectLoop(L, i + 1, max_num, target_filename)

\* find_highest_version_file() on the listing L that os.listdir(".") returned
find_highest_version_file(L) == SelectLoop(L, 1, -1, None)

\* ------------------------------------------------------------- the state
VARIABLES
    listing,             \* os.listdir("."): the directory entries, in listing order
    mtimes,              \* modification time of every directory entry
    target_file,         \* CustomHTTPRequestHandler.target_file
    current_file_mtime,  \* CustomHTTPRequestHandler.current_file_mtime
    lock,                \* CustomHTTPRequestHandler.lock: "free" or its holder
    mpc,                 \* __main__: the line it is at, or how it ended
    file_to_serve,       \* __main__: file_to_serve
    wpc,                 \* check_for_updates: the line it is at
    new_file,            \* check_for_updates: new_file
    rpc,                 \* do_GET of each handler: the line it is at
    rpath,               \* do_GET: self.path
    rsp,                 \* do_GET: what the handler answered
    mtime_of,            \* history: the file current_file_mtime was read from
    tick,                \* history: the watcher's tick in progress or just ended
    scanFresh,           \* history: the listing is as the watcher's last scan saw it
    stableReloads,       \* history: reloads printed since the listing last changed
    gone,                \* history: target_file has been missing, and the same,
                         \* since the handler's root request began
    quiet                \* history: the ticks since the directory and the
                         \* modification times last changed: 0 none begun, 1 the
                         \* first in progress, 2 it has ended, 3 a later one in
                         \* progress, 4 a later one has ended

vars == <<listing, mtimes, target_file, current_file_mtime, lock, mpc,
          file_to_serve, wpc, new_file, rpc, rpath, rsp, mtime_of, tick,
          scanFresh, stableReloads, gone, quiet>>

\* socketserver.TCPServer (line 108) handles one request at a time, in the
\* thread of serve_forever: one handler is in do_GET at any moment
NumHandlers == 1
Handlers == 1..NumHandlers

Files == {listing[i] : i \in DOMAIN listing}
\* os.path.exists(f)
Exists(f) == f \in DOMAIN mtimes
\* os.path.getmtime(f), for a file that exists
GetMtime(f) == mtimes[f]

Free == <<"free">>
Watcher == <<"watcher">>
Handler(r) == <<"handler", r>>
\* with CustomHTTPRequestHandler.lock: the lock can be taken when nobody holds it
\* (CanAcquireNoLock: the faulty variant without mutual exclusion)
CanAcquireNoLock(holder) == TRUE
CanAcquire(holder) == holder = Free
\* leaving the with block, by its end, a return or an exception, releases the
\* lock (WithExitKeep: the faulty variant that leaves it held)
WithExitKeep(holder) == holder
WithExit(holder) == Free

RootPath == <<"/">>
OtherPath == <<"/", "s">>
NoPath == <<>>

NoRsp == [kind |-> "none", name |-> None]
NoTick == [live |-> FALSE, preFile |-> None, preM |-> 0, hadCur |-> FALSE,
           out |-> "none", diskM |-> 0]

\* no directory entry matches the pattern
NoCandidate == \A f \in Files : MatchGroup(f) = NoMatch
Version(f) == IntOf(MatchGroup(f))

\* sequences without repetition over S of length at most n
DistinctSeqs(S, n) ==
    UNION {{q \in [1..k -> S] : \A i, j \in 1..k : i # j => q[i] # q[j]} : k \in 0..n}
InsertAt(L, i, f) == SubSeq(L, 1, i - 1) \o <<f>> \o SubSeq(L, i, Len(L))
Without(L, f) == SelectSeq(L, LAMBDA x : x # f)

ProgramInit ==
    /\ target_file = None
    /\ current_file_mtime = 0
    /\ lock = Free
    /\ mpc = "l93"
    /\ file_to_serve = None
    /\ wpc = "off"
    /\ new_file = None
    /\ rpc = [r \in Handlers |-> "idle"]
    /\ rpath = [r \in Handlers |-> NoPath]
    /\ rsp = [r \in Handlers |-> NoRsp]
    /\ mtime_of = None
    /\ tick = NoTick
    /\ scanFresh = FALSE
    /\ stableReloads = 0
    /\ gone = [r \in Handlers |-> FALSE]
    /\ quiet = 0

\* the process starts in a directory holding any of the files
Init ==
    /\ listing \in DistinctSeqs(Names, Cardinality(Names))
    /\ mtimes \in [Files -> 1..MaxMtime]
    /\ ProgramInit

program == <<target_file, current_file_mtime, lock, mpc, file_to_serve, wpc,
             new_file, rpc, rpath, rsp, mtime_of, tick>>
mainVars == <<mpc, file_to_serve>>
watcherVars == <<wpc, new_file, tick>>
handlerVars == <<rpc, rpath, rsp, gone>>
dirVars == <<listing, mtimes>>
state == <<target_file, current_file_mtime, mtime_of>>

\* --------------------------------------------------- the external process
ProcessAlive == mpc \notin {"exit1", "crashed"}

Create(f, m, i) ==
    /\ ProcessAlive
    /\ f \notin Files
    /\ listing' = InsertAt(listing, i, f)
    /\ mtimes' = [g \in Files \cup {f} |-> IF g = f THEN m ELSE mtimes[g]]
    /\ scanFresh' = FALSE
    /\ stableReloads' = 0
    /\ gone' = [r \in Handlers |-> gone[r] /\ f # target_file]
    /\ quiet' = 0
    /\ UNCHANGED program

Delete(f) ==
    /\ ProcessAlive
    /\ f \in Files
    /\ listing' = Without(listing, f)
    /\ mtimes' = [g \in Files \ {f} |-> mtimes[g]]
    /\ scanFresh' = FALSE
    /\ stableReloads' = 0
    /\ quiet' = 0
    /\ UNCHANGED <<program, gone>>

Modify(f, m) ==
    /\ ProcessAlive
    /\ f \in Files
    /\ m # mtimes[f]
    /\ mtimes' = [mtimes EXCEPT ![f] = m]
    /\ quiet' = 0
    /\ UNCHANGED <<listing, program, scanFresh, stableReloads, gone>>

External ==
    \/ \E f \in Names, m \in 1..MaxMtime, i \in 1..(Len(listing) + 1) : Create(f, m, i)
    \/ \E f \in Names : Delete(f)
    \/ \E f \in Names, m \in 1..MaxMtime : Modify(f, m)

\* ---------------------------------------------------------------- __main__
\* line 95: if not file_to_serve (NotFoundNever: faulty variant)
NotFoundNever(f) == FALSE
NotFound(f) == f = None

\* lines 93-97: the initial selection; exit code 1 when nothing matches
MainSelect ==
    /\ mpc = "l93"
    /\ file_to_serve' = find_highest_version_file(listing)
    /\ mpc' = IF NotFound(file_to_serve') THEN "exit1" ELSE "l100"
    /\ UNCHANGED <<dirVars, state, lock, watcherVars, handlerVars, scanFresh,
                   stableReloads, quiet>>

\* line 100
MainSetTarget ==
    /\ mpc = "l100"
    /\ target_file' = file_to_serve
    /\ mpc' = "l101"
    /\ UNCHANGED <<dirVars, current_file_mtime, mtime_of, lock, file_to_serve,
                   watcherVars, handlerVars, scanFresh, stableReloads, quiet>>

\* line 101: os.path.getmtime raises when the file is gone, and the process ends
MainSetMtime ==
    /\ mpc = "l101"
    /\ IF Exists(file_to_serve)
       THEN /\ current_file_mtime' = GetMtime(file_to_serve)
            /\ mtime_of' = file_to_serve
            /\ mpc' = "l104"
       ELSE /\ mpc' = "crashed"
            /\ UNCHANGED <<current_file_mtime, mtime_of>>
    /\ UNCHANGED <<dirVars, target_file, lock, file_to_serve, watcherVars,
                   handlerVars, scanFresh, stableReloads, quiet>>

\* lines 104-105: the update checker thread starts, in its first sleep
MainStartThread ==
    /\ mpc = "l104"
    /\ wpc' = "sleep"
    /\ mpc' = "l108"
    /\ UNCHANGED <<dirVars, state, lock, file_to_serve, new_file, tick,
                   handlerVars, scanFresh, stableReloads, quiet>>

\* lines 108-112: the server binds and serves
MainServe ==
    /\ mpc = "l108"
    /\ mpc' = "serving"
    /\ UNCHANGED <<dirVars, state, lock, file_to_serve, watcherVars, handlerVars,
                   scanFresh, stableReloads, quiet>>

Main == MainSelect \/ MainSetTarget \/ MainSetMtime \/ MainStartThread \/ MainServe

\* ------------------------------------------------------- check_for_updates
\* line 78: if new_file and new_file != target_file (the two others are faulty
\* variants: without the comparison of names, without the test for None)
SwitchCondAlways(nf, tf) == nf # None
SwitchCondNoNoneTest(nf, tf) == nf # tf
SwitchCond(nf, tf) == nf # None /\ nf # tf

\* line 86: if current_mtime != current_file_mtime (ModifiedNever and
\* ModifiedAlways: faulty variants)
ModifiedNever(current_mtime, stored) == FALSE
ModifiedAlways(current_mtime, stored) == TRUE
Modified(current_mtime, stored) == current_mtime # stored

Min(a, b) == IF a < b THEN a ELSE b
\* quiet when a tick begins and when it ends
QuietAfterScan(q) == IF q \in {2, 4} THEN 3 ELSE 1
QuietAfterTick(q) == IF q \in {1, 3} THEN q + 1 ELSE q

\* lines 72-75: time.sleep returns and new_file = find_highest_version_file(),
\* outside the lock
WatcherScan ==
    /\ wpc = "sleep"
    /\ new_file' = find_highest_version_file(listing)
    /\ wpc' = "l77"
    /\ tick' = [live |-> TRUE, preFile |-> target_file,
                preM |-> current_file_mtime, hadCur |-> target_file \in Files,
                out |-> "none", diskM |-> 0]
    /\ scanFresh' = TRUE
    /\ quiet' = QuietAfterScan(quiet)
    /\ UNCHANGED <<dirVars, state, lock, mainVars, handlerVars, stableReloads>>

\* lines 77-80 and 84: the lock is taken; when the names differ the switch is
\* printed and target_file set; otherwise os.path.exists(target_file) decides
\* between reading the modification time and leaving the with block
WatcherDecide ==
    /\ wpc = "l77"
    /\ CanAcquire(lock)
    /\ IF SwitchCond(new_file, target_file)
       THEN /\ target_file' = new_file
            /\ tick' = [tick EXCEPT !.out = "reload"]
            /\ stableReloads' = IF scanFresh THEN Min(stableReloads + 1, 2)
                                ELSE stableReloads
            /\ gone' = [r \in Handlers |-> FALSE]
            /\ lock' = Watcher
            /\ wpc' = "l81"
            /\ UNCHANGED quiet
       ELSE /\ IF Exists(target_file)
               THEN lock' = Watcher /\ wpc' = "l85" /\ UNCHANGED quiet
               ELSE /\ lock' = WithExit(Watcher)
                    /\ wpc' = "sleep"
                    /\ quiet' = QuietAfterTick(quiet)
            /\ UNCHANGED <<target_file, tick, stableReloads, gone>>
    /\ UNCHANGED <<dirVars, current_file_mtime, mtime_of, mainVars, new_file,
                   rpc, rpath, rsp, scanFresh>>

\* line 81: current_file_mtime = os.path.getmtime(new_file); the with block
\* ends.  getmtime raises FileNotFoundError when new_file is gone: the lock is
\* released by the with block and the exception ends the thread.
WatcherSwitchMtime ==
    /\ wpc = "l81"
    /\ IF Exists(new_file)
       THEN /\ current_file_mtime' = GetMtime(new_file)
            /\ mtime_of' = new_file
            /\ tick' = [tick EXCEPT !.diskM = GetMtime(new_file)]
            /\ wpc' = "sleep"
            /\ quiet' = QuietAfterTick(quiet)
       ELSE /\ wpc' = "dead"
            /\ UNCHANGED <<current_file_mtime, mtime_of, tick, quiet>>
    /\ lock' = WithExit(lock)
    /\ UNCHANGED <<dirVars, target_file, mainVars, new_file, handlerVars,
                   scanFresh, stableReloads>>

\* lines 85-88: the modification time is read and, when it differs, stored and
\* reported; the with block ends.  getmtime raises when target_file is gone.
WatcherRefresh ==
    /\ wpc = "l85"
    /\ IF Exists(target_file)
       THEN /\ IF Modified(GetMtime(target_file), current_file_mtime)
               THEN /\ current_file_mtime' = GetMtime(target_file)
                    /\ mtime_of' = target_file
                    /\ tick' = [tick EXCEPT !.out = "modified",
                                            !.diskM = GetMtime(target_file)]
               ELSE /\ tick' = [tick EXCEPT !.diskM = GetMtime(target_file)]
                    /\ UNCHANGED <<current_file_mtime, mtime_of>>
            /\ wpc' = "sleep"
            /\ quiet' = QuietAfterTick(quiet)
       ELSE /\ wpc' = "dead"
            /\ UNCHANGED <<current_file_mtime, mtime_of, tick, quiet>>
    /\ lock' = WithExit(lock)
    /\ UNCHANGED <<dirVars, target_file, mainVars, new_file, handlerVars,
                   scanFresh, stableReloads>>

WatcherStep ==
    \/ WatcherScan
    \/ WatcherDecide
    \/ WatcherSwitchMtime
    \/ WatcherRefresh

\* ------------------------------------------------------------------ do_GET
\* line 57: if os.path.exists(self.target_file) (ServeCondAlways: faulty variant)
ServeCondAlways(tf) == TRUE
ServeCond(tf) == Exists(tf)

\* line 58: self.path = self.target_file (RewriteKeep: faulty variant)
RewriteKeep(path, tf) == path
Rewrite(path, tf) == tf

\* line 54: if self.path == '/' (IsRootAlways: faulty variant)
IsRootAlways(path) == TRUE
IsRoot(path) == path = RootPath

\* serve_forever hands a request for path p to do_GET, which tests it at line 54
Request(r, p) ==
    /\ mpc = "serving"
    /\ rpc[r] = "idle"
    /\ rpc' = [rpc EXCEPT ![r] = IF IsRoot(p) THEN "l56" ELSE "l64"]
    /\ rpath' = [rpath EXCEPT ![r] = p]
    /\ gone' = [gone EXCEPT ![r] = (IsRoot(p) /\ ~Exists(target_file))]
    /\ UNCHANGED <<dirVars, state, lock, mainVars, watcherVars, rsp, scanFresh,
                   stableReloads, quiet>>

\* lines 56-60: the lock is taken; when target_file exists the path is rewritten,
\* otherwise the 404 that names it is sent; the handler is still in the with block
GetCheck(r) ==
    /\ rpc[r] = "l56"
    /\ CanAcquire(lock)
    /\ lock' = Handler(r)
    /\ IF ServeCond(target_file)
       THEN /\ rpath' = [rpath EXCEPT ![r] = Rewrite(rpath[r], target_file)]
            /\ rpc' = [rpc EXCEPT ![r] = "l58x"]
            /\ UNCHANGED rsp
       ELSE /\ rsp' = [rsp EXCEPT ![r] = [kind |-> "error404", name |-> target_file]]
            /\ rpc' = [rpc EXCEPT ![r] = "l61"]
            /\ UNCHANGED rpath
    /\ UNCHANGED <<dirVars, state, mainVars, watcherVars, gone, scanFresh,
                   stableReloads, quiet>>

\* the with block ends after line 58: the lock is released before line 64
GetRelease(r) ==
    /\ rpc[r] = "l58x"
    /\ lock' = IF lock = Handler(r) THEN WithExit(lock) ELSE lock
    /\ rpc' = [rpc EXCEPT ![r] = "l64"]
    /\ UNCHANGED <<dirVars, state, mainVars, watcherVars, rpath, rsp, gone,
                   scanFresh, stableReloads, quiet>>

\* the handler is done with its request
Finish(r) ==
    /\ rpc' = [rpc EXCEPT ![r] = "idle"]
    /\ rpath' = [rpath EXCEPT ![r] = NoPath]
    /\ rsp' = [rsp EXCEPT ![r] = NoRsp]
    /\ gone' = [gone EXCEPT ![r] = FALSE]

\* line 61: return, leaving the with block: the lock is released
GetReturn(r) ==
    /\ rpc[r] = "l61"
    /\ lock' = IF lock = Handler(r) THEN WithExit(lock) ELSE lock
    /\ Finish(r)
    /\ UNCHANGED <<dirVars, state, mainVars, watcherVars, scanFresh,
                   stableReloads, quiet>>

\* line 64: super().do_GET(): the static-file handler is given self.path
GetDelegate(r) ==
    /\ rpc[r] = "l64"
    /\ Finish(r)
    /\ UNCHANGED <<dirVars, state, lock, mainVars, watcherVars, scanFresh,
                   stableReloads, quiet>>

HandlerStep ==
    \/ \E r \in Handlers, p \in {RootPath, OtherPath} : Request(r, p)
    \/ \E r \in Handlers : GetCheck(r)
    \/ \E r \in Handlers : GetRelease(r)
    \/ \E r \in Handlers : GetReturn(r)
    \/ \E r \in Handlers : GetDelegate(r)

Next == External \/ Main \/ WatcherStep \/ HandlerStep

Spec == Init /\ [][Next]_vars

\* ------------------------------------------- the selector on its own
\* the process starts in a directory with any listing of at most MaxLen of the
\* entries in SelNames, and performs the initial selection of line 93
InitSel ==
    /\ listing \in DistinctSeqs(SelNames, MaxLen)
    /\ mtimes = [f \in Files |-> 1]
    /\ ProgramInit

NextSel == MainSelect

SpecSel == InitSel /\ [][NextSel]_vars

\* ================================================================ claims
InCriticalSection(r) == rpc[r] \in {"l58x", "l61"}
\* the tick in progress or just ended raised at line 81
FailedAtLine81 == wpc = "dead" /\ tick.out = "reload"
\* a tick has just ended and the watcher sleeps
TickEnded == wpc = "sleep" /\ tick.live
Candidates == {f \in Files : MatchGroup(f) # NoMatch}

\* C1: while a handler is inside its critical section, the stored pair is not
\* torn: current_file_mtime was read from the file target_file names, for every
\* interleaving with ticks that perform a switch (a tick that raised at line 81
\* performed none, see C2); and the name a 404 reports is the stored one.
C1_NoTornPairObserved ==
    \A r \in Handlers :
        /\ InCriticalSection(r) => (mtime_of = target_file \/ FailedAtLine81)
        /\ rpc[r] = "l61" => rsp[r].name = target_file

\* a handler is inside its critical section right after a tick that switched
C1_Witness ==
    \E r \in Handlers :
        /\ InCriticalSection(r)
        /\ TickEnded
        /\ tick.out = "reload"
        /\ tick.preFile # None
        /\ target_file # tick.preFile
        /\ mtime_of = target_file

\* C2: once the watcher runs, whenever it does not hold the lock,
\* current_file_mtime is a modification time read from the file target_file names.
C2_PairRefersToOneFile ==
    (wpc # "off" /\ lock # Watcher) => mtime_of = target_file

\* C3: a root request is at line 64 (about to be delegated) only with a
\* rewritten path that exists on disk.
C3_DelegatedPathExists ==
    \A r \in Handlers :
        (rpc[r] = "l64" /\ rpath[r] # OtherPath) => Exists(rpath[r])

\* C4: the watcher thread never ends: no tick terminates the loop.
C4_WatcherNeverTerminates == wpc # "dead"

\* C5: after a tick during which the listing did not change and held a file of
\* higher version than the current one, target_file is the scan's result, is on
\* disk and has the highest version present, and the reload was printed, once;
\* a root request that passes the existence check is rewritten to target_file;
\* and while the listing stays unchanged at most one reload is printed.
C5_SwitchToHighest ==
    /\ (/\ TickEnded
        /\ scanFresh
        /\ \E f \in Candidates : Version(f) > Version(tick.preFile))
       => /\ target_file = new_file
          /\ target_file \in Files
          /\ \A f \in Candidates : Version(f) <= Version(target_file)
          /\ tick.out = "reload"
          /\ stableReloads = 1
    /\ \A r \in Handlers : rpc[r] = "l58x" => rpath[r] = target_file
    /\ stableReloads <= 1

\* a tick has just switched to a higher version and the handler's root request
\* has been rewritten to the new file
C5_Witness ==
    /\ TickEnded
    /\ scanFresh
    /\ tick.preFile # None
    /\ Version(target_file) > Version(tick.preFile)
    /\ tick.out = "reload"
    /\ \E r \in Handlers : rpc[r] = "l58x" /\ rpath[r] = target_file

\* C6 as stated: every switch of a tick goes to a strictly higher version.
C6_SwitchStrictlyHigher ==
    (tick.live /\ tick.out = "reload")
        => Version(target_file) > Version(tick.preFile)

\* C6 amended: a tick switches only to the scan's result, a name other than the
\* replaced one; when the replaced file was in the scanned listing the new
\* version is not lower (equal for names of the same number, index01.html and
\* index1.html); when it was not, the version may decrease.
C6_SwitchToScanResult ==
    (tick.live /\ tick.out = "reload")
        => /\ target_file = new_file
           /\ target_file # tick.preFile
           /\ tick.hadCur => Version(target_file) >= Version(tick.preFile)

\* a tick has switched to a name of the same version as the replaced file, which
\* was in the scanned listing
C6_Witness ==
    /\ tick.live
    /\ tick.out = "reload"
    /\ tick.hadCur
    /\ target_file # tick.preFile
    /\ Version(target_file) = Version(tick.preFile)

\* C7: a root request that began while target_file was missing, with no creation
\* of that file and no switch since, is never on the delegating path; its answer
\* is the 404 that names target_file, which is not on disk.
C7_NotFoundWhileMissing ==
    \A r \in Handlers :
        gone[r] => /\ rpc[r] \notin {"l58x", "l64"}
                   /\ rpc[r] = "l61" => /\ rsp[r].kind = "error404"
                                        /\ rsp[r].name = target_file
                                        /\ ~Exists(rsp[r].name)

\* the directory holds no matching file and the handler has answered 404
C7_Witness ==
    \E r \in Handlers :
        /\ gone[r]
        /\ Candidates = {}
        /\ rpc[r] = "l61"
        /\ rsp[r].kind = "error404"

\* C8: a tick whose scan found nothing, in a listing unchanged since (so
\* target_file is not on disk), leaves target_file and current_file_mtime as they
\* were, prints nothing, reads no modification time, and goes back to sleep with
\* the lock released.
C8_MissingFileTickNoChange ==
    (tick.live /\ scanFresh /\ new_file = None)
        => /\ target_file = tick.preFile
           /\ current_file_mtime = tick.preM
           /\ tick.out = "none"
           /\ wpc \in {"l77", "sleep"}
           /\ wpc = "sleep" => lock # Watcher

\* such a tick has ended, with target_file not on disk
C8_Witness ==
    /\ TickEnded
    /\ scanFresh
    /\ new_file = None
    /\ target_file # None
    /\ ~Exists(target_file)

\* C9: after a tick whose scan returned the current file and that read for it a
\* modification time other than the stored one, current_file_mtime is the time
\* read, "modified" was printed and target_file is as before.
C9_RefreshStoresDiskMtime ==
    (TickEnded /\ new_file = tick.preFile /\ tick.diskM # 0 /\ tick.diskM # tick.preM)
        => /\ current_file_mtime = tick.diskM
           /\ tick.out = "modified"
           /\ target_file = tick.preFile

\* such a tick has ended and the file still has the time that was read
C9_Witness ==
    /\ TickEnded
    /\ new_file = tick.preFile
    /\ tick.diskM # 0
    /\ tick.diskM # tick.preM
    /\ Exists(target_file)
    /\ GetMtime(target_file) = current_file_mtime

\* <prefix><one or more digits><suffix>, and nothing else
ExactMatch(fn) ==
    \E k \in 1..Len(fn) :
        /\ Len(fn) = Len(FILE_PREFIX) + k + Len(FILE_SUFFIX)
        /\ SubSeq(fn, 1, Len(FILE_PREFIX)) = FILE_PREFIX
        /\ \A i \in (Len(FILE_PREFIX) + 1)..(Len(FILE_PREFIX) + k) : fn[i] \in Digits
        /\ SubSeq(fn, Len(FILE_PREFIX) + k + 1, Len(fn)) = FILE_SUFFIX
ExactNumber(fn) ==
    IntOf(SubSeq(fn, Len(FILE_PREFIX) + 1, Len(fn) - Len(FILE_SUFFIX)))
ExactEntries == {f \in Files : ExactMatch(f)}

\* C10: the initial selection returns an entry that matches the pattern exactly
\* and whose number is the maximum over the exactly matching entries, and
\* returns None exactly when no entry matches exactly.
C10_SelectsExactMaximum ==
    mpc # "l93"
        => /\ file_to_serve = None <=> ExactEntries = {}
           /\ file_to_serve # None
                => /\ file_to_serve \in ExactEntries
                   /\ \A f \in ExactEntries :
                          ExactNumber(f) <= ExactNumber(file_to_serve)
\* the positions of L whose entry the pattern of line 25 matches with the
\* maximum number among the matched entries
Attaining(L) ==
    {i \in 1..Len(L) :
        /\ MatchGroup(L[i]) # NoMatch
        /\ \A j \in 1..Len(L) :
               MatchGroup(L[j]) # NoMatch => Version(L[j]) <= Version(L[i])}
PermutationsOf(L) ==
    {q \in [1..Len(L) -> {L[i] : i \in 1..Len(L)}] :
        \A i, j \in 1..Len(L) : i # j => q[i] # q[j]}

\* C11: when exactly one entry of the listing attains the maximum number, the
\* selector returns for every permutation of the listing what the initial
\* selection returned for the listing.
C11_OrderInsensitive ==
    (mpc # "l93" /\ Cardinality(Attaining(listing)) = 1)
        => \A q \in PermutationsOf(listing) :
               find_highest_version_file(q) = file_to_serve

\* the selection was made on three entries of which several match, the one with
\* the maximum is the first, and it was returned
C11_Witness ==
    /\ mpc # "l93"
    /\ Len(listing) = 3
    /\ Attaining(listing) = {1}
    /\ Cardinality({i \in 1..3 : MatchGroup(listing[i]) # NoMatch}) >= 2
    /\ file_to_serve = listing[1]
\* C12: a selection that finds nothing ends the process with exit code 1, with
\* target_file and current_file_mtime as the class defines them, no watcher
\* thread and no request handled; the thread is started only with target_file and
\* current_file_mtime set from the selected file, and the server after the thread.
C12_NoMatchExitsBeforeSetup ==
    /\ (mpc # "l93" /\ file_to_serve = None) => mpc = "exit1"
    /\ mpc = "exit1"
         => /\ Candidates = {}
            /\ target_file = None
            /\ current_file_mtime = 0
            /\ mtime_of = None
            /\ wpc = "off"
            /\ \A r \in Handlers : rpc[r] = "idle"
    /\ mpc = "l104"
         => /\ wpc = "off"
            /\ target_file = file_to_serve
            /\ mtime_of = file_to_serve
    /\ wpc # "off" => (mpc \in {"l108", "serving"} /\ target_file # None /\ mtime_of # None)
    /\ (\E r \in Handlers : rpc[r] # "idle") => mpc = "serving"

\* the process has exited with code 1 in a directory without a matching file
C12_Witness ==
    /\ mpc = "exit1"
    /\ Candidates = {}
    /\ file_to_serve = None
    /\ wpc = "off"
\* C13: a file of a higher version than target_file's is on disk only while the
\* watcher thread is there to switch to it: in no reachable state has the thread
\* ended with such a file present (from that state no tick runs, so target_file
\* never becomes the highest file however long the file stays).
C13_HigherVersionHasLiveWatcher ==
    wpc = "dead" => ~\E f \in Candidates : Version(f) > Version(target_file)
\* C14: the lock is held exactly inside the with blocks: by the watcher at lines
\* 81 and 85 only (not while it sleeps, scans, waits at line 77 or after it
\* ended), by a handler between line 56 and the end of its block only.  The
\* holder's next step is enabled and frees the lock, and with the lock free a
\* waiting thread can take it: no state is a deadlock on the lock.
C14_LockHeldOnlyInsideWith ==
    /\ lock \in {Free, Watcher} \cup {Handler(r) : r \in Handlers}
    /\ lock = Watcher <=> wpc \in {"l81", "l85"}
    /\ \A r \in Handlers : lock = Handler(r) <=> InCriticalSection(r)
    /\ lock = Watcher => ENABLED (WatcherStep /\ lock' = Free)
    /\ \A r \in Handlers :
          lock = Handler(r) => ENABLED ((GetRelease(r) \/ GetReturn(r)) /\ lock' = Free)
    /\ (wpc = "l77" /\ lock = Free) => ENABLED WatcherDecide
    /\ \A r \in Handlers : (rpc[r] = "l56" /\ lock = Free) => ENABLED GetCheck(r)

\* a handler waits at line 56 while the watcher holds the lock at line 81, in a
\* tick that is about to fail (new_file is gone)
C14_Witness ==
    \E r \in Handlers :
        /\ rpc[r] = "l56"
        /\ lock = Watcher
        /\ wpc = "l81"
        /\ ~Exists(new_file)
\* C15: no step of a request handler (the request's arrival, the check under the
\* lock, the release, the 404 return, the delegation) changes target_file or
\* current_file_mtime; the rewrite of line 58 sets the path of the handler's own
\* request to target_file and changes no other handler's path.
C15_RequestsLeaveServingState ==
    [][HandlerStep
         => /\ UNCHANGED <<target_file, current_file_mtime>>
            /\ \A r \in Handlers :
                  /\ (rpc[r] = "l56" /\ rpc'[r] = "l58x") => rpath'[r] = target_file'
                  /\ (rpc[r] = "l56" /\ rpc'[r] = "l61") => rpath'[r] = rpath[r]
                  /\ rpc'[r] = rpc[r] => rpath'[r] = rpath[r]]_vars

\* a handler has its path rewritten to target_file, which a tick set
C15_Witness ==
    \E r \in Handlers :
        /\ rpc[r] = "l58x"
        /\ rpath[r] = target_file
        /\ tick.live
        /\ target_file # file_to_serve
\* C16: when several entries of the listing attain the maximum number (names
\* that parse to the same integer), the selection returns the one that comes
\* first in the listing.
C16_FirstOfTiesReturned ==
    (mpc # "l93" /\ Cardinality(Attaining(listing)) >= 2)
        => \E i \in Attaining(listing) :
              /\ file_to_serve = listing[i]
              /\ \A j \in Attaining(listing) : i <= j

\* index01.html and index1.html are both listed, after another entry, and the
\* earlier of the two was returned
C16_Witness ==
    /\ mpc # "l93"
    /\ Len(listing) = 3
    /\ Attaining(listing) = {2, 3}
    /\ {listing[2], listing[3]} = {index1, index01}
    /\ file_to_serve = listing[2]

\* C17: a handler whose request is for the non-root path is at line 64 with that
\* path, does not hold the lock and never took the path through lines 56-61, and
\* its delegation is enabled whoever holds the lock and whether or not
\* target_file exists.
C17_NonRootDelegatedUnchanged ==
    \A r \in Handlers :
        rpath[r] = OtherPath
            => /\ rpc[r] = "l64"
               /\ lock # Handler(r)
               /\ ~gone[r]
               /\ rsp[r] = NoRsp
               /\ ENABLED GetDelegate(r)

\* a non-root request is about to be delegated while the watcher holds the lock
\* and target_file is not on disk
C17_Witness ==
    \E r \in Handlers :
        /\ rpath[r] = OtherPath
        /\ rpc[r] = "l64"
        /\ lock = Watcher
        /\ ~Exists(target_file)
\* C18: a tick that begins after an earlier tick has ended, with no creation,
\* deletion or modification of a file since that earlier tick began, leaves
\* target_file and current_file_mtime as they were when it began, prints neither
\* message and does not end the thread.
C18_TickIdempotent ==
    quiet \in {3, 4}
        => /\ wpc # "dead"
           /\ target_file = tick.preFile
           /\ current_file_mtime = tick.preM
           /\ tick.out = "none"

\* such a tick has ended, in a directory of several files where it read the
\* modification time of target_file
C18_Witness ==
    /\ quiet = 4
    /\ TickEnded
    /\ Cardinality(Files) >= 2
    /\ Exists(target_file)
    /\ tick.diskM = current_file_mtime

\* C19: once the watcher thread or the server has been started, target_file is a
\* name the pattern matches and never None: a tick stores only a scan result
\* that is not None, and a handler at its existence check reads such a name.
C19_TargetFileAlwaysSet ==
    /\ (wpc # "off" \/ mpc \in {"l108", "serving"})
          => (target_file # None /\ MatchGroup(target_file) # NoMatch)
    /\ wpc = "l81" => (new_file # None /\ target_file = new_file)
    /\ \A r \in Handlers : rpc[r] # "idle" => target_file # None

\* a tick whose scan found nothing has ended while a root request waits for its
\* existence check, and target_file is still the name it was
C19_Witness ==
    /\ TickEnded
    /\ new_file = None
    /\ target_file # None
    /\ target_file = tick.preFile
    /\ \E r \in Handlers : rpc[r] = "l56"
====
